---- MODULE Spec2Model ----
(***************************************************************************)
(* Session Store (useAuthStore) and API Gateway (ApiClient) of the Todoc   *)
(* frontend.  The store is the zustand state {isAuthenticated, token} plus *)
(* the localStorage keys access_token / refresh_token.  Every gateway call *)
(* is an async function; a call's position (pc) is the await it is         *)
(* suspended at.  Further specifications over the same variables: the      *)
(* store alone across page reloads (SpecStore), useAuth.login's direct     *)
(* fetch (SpecEgress), a useRecords instance (SpecRecords), AuthProvider   *)
(* with App's screen gating and onboarding effect (SpecApp),               *)
(* useSelectedKid in HomeScreen (SpecKid), ChatScreen (SpecChat).          *)
(***************************************************************************)
EXTENDS Integers, Sequences, FiniteSets, TLC

(* ---------- bounds ---------- *)
\* number of gateway calls that may be in flight together
MaxCalls == 2

Calls == 1..MaxCalls

(* ---------- JavaScript values ---------- *)
\* null (token: string | null, localStorage.getItem of a missing key)
Null == "<null>"
\* undefined (a missing property such as errorData.detail or error.status)
Undefined == "<undefined>"
UndefinedStatus == -1

\* token strings handed to login(); the empty string is a string too
Tokens == {"", "abc123"}
RefreshTokens == {"r1"}

\* JavaScript truthiness of a string | null | undefined
Truthy(v) == v \notin {Null, Undefined, ""}

(* ---------- Session Store: src/unnamed/part_003 ---------- *)
VARIABLES
    token,            \* useAuthStore state.token
    isAuthenticated,  \* useAuthStore state.isAuthenticated
    storage,          \* localStorage: access_token, refresh_token
    calls,            \* gateway calls: position, request in flight, response, outcome
    trail,            \* history: the store operations called so far, in order
    hook,             \* a useRecords instance: its React state and its operations in flight
    app               \* AuthProvider and App: their React state and their async functions

vars == <<token, isAuthenticated, storage, calls, trail, hook, app>>

StoreState == [token |-> token, isAuthenticated |-> isAuthenticated, storage |-> storage]

\* a login that keeps the token in memory only
StoreLoginMemoryOnly(s, t) ==
    [token |-> t, isAuthenticated |-> TRUE, storage |-> s.storage]

\* login: (token) => { localStorage.setItem('access_token', token); set({isAuthenticated: true, token}) }
StoreLogin(s, t) ==
    [token |-> t,
     isAuthenticated |-> TRUE,
     storage |-> [s.storage EXCEPT !.access_token = t]]

\* a logout that forgets to clear durable storage
StoreLogoutKeepsStorage(s) ==
    [token |-> Null, isAuthenticated |-> FALSE, storage |-> s.storage]

\* logout: () => { removeItem('access_token'); removeItem('refresh_token'); set({isAuthenticated: false, token: null}) }
StoreLogout(s) ==
    [token |-> Null,
     isAuthenticated |-> FALSE,
     storage |-> [access_token |-> Null, refresh_token |-> Null]]

\* an init that always copies what localStorage holds
StoreInitOverwrites(s) ==
    [s EXCEPT !.token = s.storage.access_token,
              !.isAuthenticated = (s.storage.access_token \notin {Null, ""})]

\* init: () => { const token = getItem('access_token'); if (token) set({isAuthenticated: true, token}) }
StoreInit(s) ==
    IF Truthy(s.storage.access_token)
    THEN [s EXCEPT !.token = s.storage.access_token, !.isAuthenticated = TRUE]
    ELSE s

(* ---------- HTTP responses and JSON bodies ---------- *)
\* response.status values the backend answers with
Statuses == {200, 401, 500}
\* response.ok
Ok(status) == status >= 200 /\ status <= 299

EmptyBody == ""
HtmlBody == "<html>Bad Gateway</html>"
NullBody == "null"
DetailBody == "{\"detail\":\"Child not found\"}"
EmptyDetailBody == "{\"detail\":\"\"}"
KidBody == "{\"id\":7,\"name\":\"Kid\"}"
\* GET records: a RecordResponse[]; POST records/...: the created record, either
\* itself (useRecords.ts) or under .record, which may be null (useChat.ts)
ListABody == "[{\"id\":1}]"
ListBBody == "[{\"id\":2}]"
CreatedBody == "{\"id\":3}"
WrappedBody == "{\"meal\":true,\"record\":{\"id\":3}}"
WrappedNullBody == "{\"meal\":true,\"record\":null}"
\* GET /auth/me: a UserResponse; POST /auth/login: a Token; GET /kids/: a KidResponse[]
UserBody == "{\"id\":1,\"username\":\"mom\"}"
TokenBody == "{\"access_token\":\"abc123\",\"refresh_token\":\"r1\"}"
KidsBody == "[{\"id\":7,\"name\":\"Kid\"}]"
NoKidsBody == "[]"
JsonBodies ==
    {ListABody, ListBBody, CreatedBody, WrappedBody, WrappedNullBody,
     UserBody, TokenBody, KidsBody, NoKidsBody}

Bodies == {EmptyBody, HtmlBody, NullBody, DetailBody, EmptyDetailBody, KidBody}
\* the bodies sent with a 2xx status: empty, not JSON, a JSON object
SuccessBodies == {EmptyBody, HtmlBody, KidBody}
\* the responses fetch resolves with
Responses ==
    {r \in [status : Statuses, body : Bodies] : Ok(r.status) => r.body \in SuccessBodies}

\* JSON.parse(text) / response.json(): ok = FALSE is the SyntaxError; otherwise
\* the parsed value: whether it is null, its canonical text, its .detail property
JsonParse(text) ==
    CASE text = NullBody -> [ok |-> TRUE, isNull |-> TRUE, repr |-> "null", detail |-> Undefined]
      [] text = DetailBody -> [ok |-> TRUE, isNull |-> FALSE, repr |-> DetailBody, detail |-> "Child not found"]
      [] text = EmptyDetailBody -> [ok |-> TRUE, isNull |-> FALSE, repr |-> EmptyDetailBody, detail |-> ""]
      [] text = KidBody -> [ok |-> TRUE, isNull |-> FALSE, repr |-> KidBody, detail |-> Undefined]
      [] text \in JsonBodies -> [ok |-> TRUE, isNull |-> FALSE, repr |-> text, detail |-> Undefined]
      [] OTHER -> [ok |-> FALSE, isNull |-> FALSE, repr |-> Undefined, detail |-> Undefined]

\* the literal {} of `.catch(() => ({}))` and of `return {} as T`
EmptyObject == [ok |-> TRUE, isNull |-> FALSE, repr |-> "{}", detail |-> Undefined]

(* ---------- errors a call can reject with ---------- *)
\* a property the object does not have
Absent == "<absent>"
NetworkErrorMessage == "Network error. Please check your connection."

\* an ApiError literal {message, status, detail?}
ApiError(message, status, detail) ==
    [kind |-> "ApiError", status |-> status, message |-> message, detail |-> detail]
\* exceptions raised by the runtime: no status property
TypeError == [kind |-> "TypeError", status |-> UndefinedStatus, message |-> "TypeError", detail |-> Absent]
SyntaxError == [kind |-> "SyntaxError", status |-> UndefinedStatus, message |-> "SyntaxError", detail |-> Absent]
NoError == [kind |-> "none", status |-> UndefinedStatus, message |-> "", detail |-> Absent]

\* `HTTP error! status: ${response.status}`
GenericMessage(status) == "HTTP error! status: " \o ToString(status)

\* errorData.detail || `HTTP error! status: ${response.status}`
ErrorMessage(errorData, status) ==
    IF Truthy(errorData.detail) THEN errorData.detail ELSE GenericMessage(status)

\* await response.json().catch(() => ({}))
ErrorData(body) == IF JsonParse(body).ok THEN JsonParse(body) ELSE EmptyObject

(* ---------- outcomes of a call's promise ---------- *)
Pending == [state |-> "pending", value |-> Undefined, error |-> NoError]
Resolved(v) == [state |-> "resolved", value |-> v, error |-> NoError]
Rejected(e) == [state |-> "rejected", value |-> Undefined, error |-> e]

(* ---------- request headers ---------- *)
NoHeaders == [ContentType |-> Absent, Authorization |-> Absent]

\* a request() that attaches the header whenever token is not null
RequestHeadersNullCheck(tok) ==
    [ContentType |-> "application/json",
     Authorization |-> IF tok # Null THEN "Bearer " \o tok ELSE Absent]

\* request(): headers = {'Content-Type': 'application/json', ...options.headers};
\* if (token) headers['Authorization'] = `Bearer ${token}`
RequestHeaders(tok) ==
    [ContentType |-> "application/json",
     Authorization |-> IF Truthy(tok) THEN "Bearer " \o tok ELSE Absent]

\* uploadFile(): headers = {}; if (token) headers['Authorization'] = `Bearer ${token}`
UploadHeaders(tok) ==
    [ContentType |-> Absent,
     Authorization |-> IF Truthy(tok) THEN "Bearer " \o tok ELSE Absent]

(* ---------- API Gateway: ApiClient in src/frontend/src/App.tsx ---------- *)
IdleCall ==
    [pc |-> "idle", kind |-> "none", headers |-> NoHeaders,
     status |-> 0, body |-> EmptyBody, outcome |-> Pending]

\* call slots carry no identity in the program: a new call takes the first free one
FirstIdle(c) == calls[c].pc = "idle" /\ \A d \in Calls : d < c => calls[d].pc # "idle"

\* request(), error branch: errorData = await response.json().catch(() => ({}));
\* throw {message: errorData.detail || generic, status, detail: errorData.detail}.
\* Reading .detail of null raises a TypeError instead.
RequestErrorThrown(status, body) ==
    IF ErrorData(body).isNull
    THEN TypeError
    ELSE ApiError(ErrorMessage(ErrorData(body), status), status, ErrorData(body).detail)

\* a success branch without the empty-text check
RequestSuccessParsesAlways(body) ==
    IF JsonParse(body).ok
    THEN Resolved(JsonParse(body).repr)
    ELSE Rejected(SyntaxError)

\* request(), success branch: text = await response.text();
\* if (!text) return {}; return JSON.parse(text)
RequestSuccess(body) ==
    IF body = ""
    THEN Resolved(EmptyObject.repr)
    ELSE IF JsonParse(body).ok
         THEN Resolved(JsonParse(body).repr)
         ELSE Rejected(SyntaxError)

\* a catch block that rethrows whatever it caught
RequestCatchRethrows(error) ==
    [logout |-> error.status = 401, error |-> error]

\* request(), catch (error): if (error.status === 401) logout();
\* if (error.status) throw error; throw {message: 'Network error...', status: 0}
RequestCatch(error) ==
    [logout |-> error.status = 401,
     error |-> IF error.status \notin {UndefinedStatus, 0}
               THEN error
               ELSE [kind |-> "ApiError", status |-> 0,
                     message |-> NetworkErrorMessage, detail |-> Absent]]

\* uploadFile(), error branch: throw {message: errorData.detail || generic, status}
UploadErrorThrown(status, body) ==
    IF ErrorData(body).isNull
    THEN TypeError
    ELSE ApiError(ErrorMessage(ErrorData(body), status), status, Absent)

\* uploadFile(), success branch: return response.json()
UploadSuccess(body) ==
    IF JsonParse(body).ok
    THEN Resolved(JsonParse(body).repr)
    ELSE Rejected(SyntaxError)

\* a gateway that logs out on every error status
ForcesLogoutAnyError(status) == status >= 400

\* if (response.status === 401) useAuthStore.getState().logout()
ForcesLogout(status) == status = 401

\* the store and localStorage after a store operation; the store and the
\* gateway touch no React state
SetStore(s) ==
    /\ token' = s.token
    /\ isAuthenticated' = s.isAuthenticated
    /\ storage' = s.storage
    /\ UNCHANGED <<trail, hook, app>>

StoreUnchanged == UNCHANGED <<token, isAuthenticated, storage, trail, hook, app>>

(* ----- Session Store operations, called by the application ----- *)
Login(t) ==
    /\ SetStore(StoreLogin(StoreState, t))
    /\ UNCHANGED calls

Logout ==
    /\ SetStore(StoreLogout(StoreState))
    /\ UNCHANGED calls

InitStore ==
    /\ SetStore(StoreInit(StoreState))
    /\ UNCHANGED calls

(* ----- request<T>(endpoint, options) ----- *)
\* lines 229-245: read the token, build the headers, call fetch and suspend
RequestIssue(c) ==
    /\ FirstIdle(c)
    /\ calls' = [calls EXCEPT ![c] =
          [IdleCall EXCEPT !.pc = "fetch", !.kind = "request",
                           !.headers = RequestHeaders(token)]]
    /\ StoreUnchanged

\* fetch rejects (no HTTP response): the catch block runs
RequestFetchRejects(c) ==
    /\ calls[c].pc = "fetch" /\ calls[c].kind = "request"
    /\ calls' = [calls EXCEPT ![c].pc = "done", ![c].headers = NoHeaders,
                              ![c].outcome = Rejected(RequestCatch(TypeError).error)]
    /\ IF RequestCatch(TypeError).logout
       THEN SetStore(StoreLogout(StoreState))
       ELSE StoreUnchanged

\* fetch resolves with a response: lines 247-252 (not ok: logout on 401, then
\* suspend on response.json()) or line 262 (ok: suspend on response.text())
RequestFetchResponds(c, status, body) ==
    /\ calls[c].pc = "fetch" /\ calls[c].kind = "request"
    /\ calls' = [calls EXCEPT ![c].pc = IF Ok(status) THEN "text" ELSE "errorJson",
                              ![c].headers = NoHeaders,
                              ![c].status = status, ![c].body = body]
    /\ IF ~Ok(status) /\ ForcesLogout(status)
       THEN SetStore(StoreLogout(StoreState))
       ELSE StoreUnchanged

\* response.json() settles: lines 252-258 throw, lines 268-280 catch
RequestErrorBody(c) ==
    /\ calls[c].pc = "errorJson" /\ calls[c].kind = "request"
    /\ LET caught == RequestCatch(RequestErrorThrown(calls[c].status, calls[c].body)) IN
       /\ calls' = [calls EXCEPT ![c].pc = "done", ![c].outcome = Rejected(caught.error)]
       /\ IF caught.logout
          THEN SetStore(StoreLogout(StoreState))
          ELSE StoreUnchanged

\* response.text() settles: lines 262-267, and the catch block if JSON.parse throws
RequestText(c) ==
    /\ calls[c].pc = "text" /\ calls[c].kind = "request"
    /\ LET out == RequestSuccess(calls[c].body)
           caught == RequestCatch(out.error) IN
       IF out.state = "resolved"
       THEN /\ calls' = [calls EXCEPT ![c].pc = "done", ![c].outcome = out]
            /\ StoreUnchanged
       ELSE /\ calls' = [calls EXCEPT ![c].pc = "done", ![c].outcome = Rejected(caught.error)]
            /\ IF caught.logout
               THEN SetStore(StoreLogout(StoreState))
               ELSE StoreUnchanged

(* ----- uploadFile<T>(endpoint, formData) ----- *)
\* lines 319-331
UploadIssue(c) ==
    /\ FirstIdle(c)
    /\ calls' = [calls EXCEPT ![c] =
          [IdleCall EXCEPT !.pc = "fetch", !.kind = "upload",
                           !.headers = UploadHeaders(token)]]
    /\ StoreUnchanged

\* fetch rejects: there is no try/catch, the rejection reaches the caller as it is
UploadFetchRejects(c) ==
    /\ calls[c].pc = "fetch" /\ calls[c].kind = "upload"
    /\ calls' = [calls EXCEPT ![c].pc = "done", ![c].headers = NoHeaders,
                              ![c].outcome = Rejected(TypeError)]
    /\ StoreUnchanged

\* fetch resolves: line 334 suspends on response.json() (not ok), line 345 (ok)
UploadFetchResponds(c, status, body) ==
    /\ calls[c].pc = "fetch" /\ calls[c].kind = "upload"
    /\ calls' = [calls EXCEPT ![c].pc = IF Ok(status) THEN "json" ELSE "errorJson",
                              ![c].headers = NoHeaders,
                              ![c].status = status, ![c].body = body]
    /\ StoreUnchanged

\* lines 334-342: errorData read, logout on 401, throw
UploadErrorBody(c) ==
    /\ calls[c].pc = "errorJson" /\ calls[c].kind = "upload"
    /\ calls' = [calls EXCEPT ![c].pc = "done",
          ![c].outcome = Rejected(UploadErrorThrown(calls[c].status, calls[c].body))]
    /\ IF ForcesLogout(calls[c].status)
       THEN SetStore(StoreLogout(StoreState))
       ELSE StoreUnchanged

\* line 345: response.json() settles
UploadJson(c) ==
    /\ calls[c].pc = "json" /\ calls[c].kind = "upload"
    /\ calls' = [calls EXCEPT ![c].pc = "done", ![c].outcome = UploadSuccess(calls[c].body)]
    /\ StoreUnchanged

\* the awaiting caller takes the settled promise; the slot is free for the next call
Settle(c) ==
    /\ calls[c].pc = "done"
    /\ calls' = [calls EXCEPT ![c] = IdleCall]
    /\ StoreUnchanged

(* ---------- specification ---------- *)
\* state after construction: store anonymous (part_003 lines 12-13); localStorage
\* holds whatever an earlier run of the app left
NoHook == [mounted |-> FALSE]
NoApp == [mounted |-> FALSE]

Init ==
    /\ token = Null
    /\ isAuthenticated = FALSE
    /\ storage \in [access_token : {Null} \cup Tokens, refresh_token : {Null} \cup RefreshTokens]
    /\ calls = [c \in Calls |-> IdleCall]
    /\ trail = <<>>
    /\ hook = NoHook
    /\ app = NoApp

Next ==
    \/ \E t \in Tokens : Login(t)
    \/ Logout
    \/ InitStore
    \/ \E c \in Calls : RequestIssue(c)
    \/ \E c \in Calls : RequestFetchRejects(c)
    \/ \E c \in Calls, r \in Responses : RequestFetchResponds(c, r.status, r.body)
    \/ \E c \in Calls : RequestErrorBody(c)
    \/ \E c \in Calls : RequestText(c)
    \/ \E c \in Calls : UploadIssue(c)
    \/ \E c \in Calls : UploadFetchRejects(c)
    \/ \E c \in Calls, r \in Responses : UploadFetchResponds(c, r.status, r.body)
    \/ \E c \in Calls : UploadErrorBody(c)
    \/ \E c \in Calls : UploadJson(c)
    \/ \E c \in Calls : Settle(c)

Spec == Init /\ [][Next]_vars

(* ---------- the Session Store alone, across process restarts ---------- *)
\* number of store operations followed from the start
MaxTrail == 3

OpLogin(t) == [op |-> "login", t |-> t]
OpLogout == [op |-> "logout", t |-> Null]
OpInit == [op |-> "init", t |-> Null]
OpRestart == [op |-> "restart", t |-> Null]

TrailStep(op) ==
    /\ Len(trail) < MaxTrail
    /\ trail' = Append(trail, op)
    /\ UNCHANGED <<calls, hook, app>>

StoreBecomes(s) ==
    /\ token' = s.token
    /\ isAuthenticated' = s.isAuthenticated
    /\ storage' = s.storage

TrailLogin(t) == TrailStep(OpLogin(t)) /\ StoreBecomes(StoreLogin(StoreState, t))
TrailLogout == TrailStep(OpLogout) /\ StoreBecomes(StoreLogout(StoreState))
TrailInit == TrailStep(OpInit) /\ StoreBecomes(StoreInit(StoreState))

\* the page is reloaded: the module is evaluated again, so the store is back at
\* its initial state (part_003 lines 12-13); localStorage is kept
TrailRestart ==
    /\ TrailStep(OpRestart)
    /\ token' = Null
    /\ isAuthenticated' = FALSE
    /\ UNCHANGED storage

NextStore ==
    \/ \E t \in Tokens : TrailLogin(t)
    \/ TrailLogout
    \/ TrailInit
    \/ TrailRestart

SpecStore == Init /\ [][NextStore]_vars

(* ---------- useAuth.login: src/frontend/src/api/hooks/useAuth.ts ---------- *)
LoginFailedMessage == "Login failed"

\* fetch(url, {method: 'POST', headers: {'Content-Type': 'application/x-www-form-urlencoded'}, body})
DirectHeaders == [ContentType |-> "application/x-www-form-urlencoded", Authorization |-> Absent]

\* new Error(message): no status, no detail
PlainError(message) ==
    [kind |-> "Error", status |-> UndefinedStatus, message |-> message, detail |-> Absent]

\* if (!response.ok) { errorData = await response.json().catch(() => ({}));
\*                     throw new Error(errorData.detail || 'Login failed') }
DirectErrorThrown(body) ==
    IF ErrorData(body).isNull
    THEN TypeError
    ELSE PlainError(IF Truthy(ErrorData(body).detail)
                    THEN ErrorData(body).detail ELSE LoginFailedMessage)

\* const token: Token = await response.json()
DirectSuccess(body) ==
    IF JsonParse(body).ok THEN Resolved(JsonParse(body).repr) ELSE Rejected(SyntaxError)

\* login(): the request leaves through the global fetch, not through apiClient
DirectLoginIssue(c) ==
    /\ FirstIdle(c)
    /\ calls' = [calls EXCEPT ![c] = [IdleCall EXCEPT !.pc = "fetch", !.kind = "direct",
                                                      !.headers = DirectHeaders]]
    /\ StoreUnchanged

\* fetch rejects: catch (err) { setError(...); throw err }
DirectFetchRejects(c) ==
    /\ calls[c].kind = "direct" /\ calls[c].pc = "fetch"
    /\ calls' = [calls EXCEPT ![c].pc = "done", ![c].outcome = Rejected(TypeError)]
    /\ StoreUnchanged

\* fetch resolves; response.ok is tested and nothing else is
DirectFetchResponds(c, status, body) ==
    /\ calls[c].kind = "direct" /\ calls[c].pc = "fetch"
    /\ calls' = [calls EXCEPT ![c].pc = IF Ok(status) THEN "json" ELSE "errorJson",
                              ![c].status = status, ![c].body = body]
    /\ StoreUnchanged

DirectErrorBody(c) ==
    /\ calls[c].kind = "direct" /\ calls[c].pc = "errorJson"
    /\ calls' = [calls EXCEPT ![c].pc = "done",
                              ![c].outcome = Rejected(DirectErrorThrown(calls[c].body))]
    /\ StoreUnchanged

\* the token response has been read; what login() does with it goes through
\* apiClient again
DirectJson(c) ==
    /\ calls[c].kind = "direct" /\ calls[c].pc = "json"
    /\ calls' = [calls EXCEPT ![c].pc = "done", ![c].outcome = DirectSuccess(calls[c].body)]
    /\ StoreUnchanged

NextEgress ==
    \/ \E t \in Tokens : Login(t)
    \/ Logout
    \/ \E c \in Calls : DirectLoginIssue(c)
    \/ \E c \in Calls : DirectFetchRejects(c)
    \/ \E c \in Calls, r \in Responses : DirectFetchResponds(c, r.status, r.body)
    \/ \E c \in Calls : DirectErrorBody(c)
    \/ \E c \in Calls : DirectJson(c)
    \/ \E c \in Calls : Settle(c)

SpecEgress == Init /\ [][NextEgress]_vars

(* ---------- useRecords: api/hooks/useRecords.ts and api/hooks/useChat.ts ---------- *)
\* number of hook operations followed from the mount
MaxOps == 3

FetchFailedMessage == "Failed to fetch records"
CreateFailedMessage == "Failed to create meal record"
NoKidMessage == "No kid selected"

\* the parsed values the hook reads: a list of records, a record, response.record
AsRecords(repr) ==
    CASE repr = ListABody -> <<"1">>
      [] repr = ListBBody -> <<"2">>
      [] OTHER -> <<>>
AsRecord(repr) == IF repr = CreatedBody THEN "3" ELSE Undefined
RecordField(repr) ==
    CASE repr = WrappedBody -> "3"
      [] repr = WrappedNullBody -> Null
      [] OTHER -> Undefined

\* what the backend answers to an operation of the hook
HookResponses(op, variant) ==
    [status : {401, 500}, body : {DetailBody}]
    \cup [status : {200},
          body : CASE op = "fetch" -> {ListABody, ListBBody}
                   [] op = "create" /\ variant = "plain" -> {CreatedBody}
                   [] op = "create" /\ variant = "kid" -> {WrappedBody, WrappedNullBody}
                   [] OTHER -> {}]

NoOp == [op |-> "none", n |-> 0]

\* a fetchRecords that drops the response of any call but the latest issued
FetchAcceptsLatestOnly(n, issued) == n = issued

\* setRecords(response): whatever call the response belongs to
FetchAccepts(n, issued) == TRUE

\* a create that appends the new record
CreatedListAppends(record, prev) == prev \o <<record>>

\* setRecords((prev) => [response, ...prev])
CreatedList(record, prev) == <<record>> \o prev

\* the records state after a create resolved with the parsed response
RecordsAfterCreate(variant, repr, prev) ==
    IF variant = "plain"
    THEN CreatedList(AsRecord(repr), prev)
    ELSE IF Truthy(RecordField(repr)) THEN CreatedList(RecordField(repr), prev) ELSE prev

\* err.message || 'Failed to ...'
HookErrorMessage(err, op) ==
    IF Truthy(err.message) THEN err.message
    ELSE IF op = "fetch" THEN FetchFailedMessage ELSE CreateFailedMessage

\* promise reactions run before the next network event is handled
NoneDone == \A c \in Calls : calls[c].pc # "done"

HookUnchanged == UNCHANGED <<token, isAuthenticated, storage, trail, app>>

\* fetchRecords(filters) / create...Record(data) up to the await of apiClient.get / post
HookIssue(c, op) ==
    /\ NoneDone
    /\ FirstIdle(c)
    /\ hook.issued < MaxOps
    /\ hook.variant = "kid" => Truthy(hook.kidId)
    /\ calls' = [calls EXCEPT ![c] =
          [IdleCall EXCEPT !.pc = "fetch", !.kind = "request",
                           !.headers = RequestHeaders(token)]]
    /\ hook' = [hook EXCEPT !.loading = TRUE, !.error = Null,
                            !.issued = @ + 1, !.ops[c] = [op |-> op, n |-> hook.issued + 1]]
    /\ HookUnchanged

\* if (!kidId) return [] / if (!kidId) throw new Error('No kid selected')
HookNoKid(op) ==
    /\ NoneDone
    /\ hook.issued < MaxOps
    /\ hook.variant = "kid" /\ ~Truthy(hook.kidId)
    /\ hook' = [hook EXCEPT !.issued = @ + 1,
                            !.last = IF op = "fetch" THEN Resolved("[]")
                                     ELSE Rejected(PlainError(NoKidMessage))]
    /\ UNCHANGED calls
    /\ HookUnchanged

\* the rest of the operation once the gateway call has settled: try / catch / finally
HookContinue(c) ==
    /\ calls[c].pc = "done"
    /\ hook.ops[c].op # "none"
    /\ LET o == calls[c].outcome
           op == hook.ops[c].op
           ok == o.state = "resolved"
       IN hook' = [hook EXCEPT
             !.records = IF ~ok THEN @
                         ELSE IF op = "fetch"
                              THEN IF FetchAccepts(hook.ops[c].n, hook.issued)
                                   THEN AsRecords(o.value) ELSE @
                              ELSE RecordsAfterCreate(hook.variant, o.value, @),
             !.error = IF ok THEN @ ELSE HookErrorMessage(o.error, op),
             !.loading = FALSE,
             !.last = o,
             !.ops[c] = NoOp,
             !.log = Append(@, [op |-> op, n |-> hook.ops[c].n, ok |-> ok, value |-> o.value])]
    /\ calls' = [calls EXCEPT ![c] = IdleCall]
    /\ HookUnchanged

MountedHook(variant, kidId) ==
    [mounted |-> TRUE, variant |-> variant, kidId |-> kidId,
     records |-> <<>>, loading |-> FALSE, error |-> Null,
     issued |-> 0, ops |-> [c \in Calls |-> NoOp], last |-> Pending, log |-> <<>>]

\* a logged-in session in which a screen has mounted the hook
InitRecords ==
    /\ token = "abc123"
    /\ isAuthenticated = TRUE
    /\ storage = [access_token |-> "abc123", refresh_token |-> "r1"]
    /\ calls = [c \in Calls |-> IdleCall]
    /\ trail = <<>>
    /\ hook \in {MountedHook("plain", Null), MountedHook("kid", Null), MountedHook("kid", "7")}
    /\ app = NoApp

NextRecords ==
    \/ \E c \in Calls, op \in {"fetch", "create"} : HookIssue(c, op)
    \/ \E op \in {"fetch", "create"} : HookNoKid(op)
    \/ \E c \in Calls : HookContinue(c)
    \/ NoneDone /\ \E c \in Calls : RequestFetchRejects(c)
    \/ NoneDone /\ \E c \in Calls :
          \E r \in HookResponses(hook.ops[c].op, hook.variant) :
             RequestFetchResponds(c, r.status, r.body)
    \/ NoneDone /\ \E c \in Calls : RequestErrorBody(c)
    \/ NoneDone /\ \E c \in Calls : RequestText(c)

SpecRecords == InitRecords /\ [][NextRecords]_vars

(* ---------- AuthProvider (contexts/AuthContext.tsx) and App (App.tsx) ---------- *)
\* the async functions, each suspended on one gateway call at a time: initAuth
\* and login ("auth"), checkOnboarding ("check", and "check2" for a run started
\* while an earlier one is still waiting), handleOnboardingComplete ("screen")
CheckCalls == {"check", "check2"}
AppCalls == {"auth", "screen"} \cup CheckCalls

\* response.access_token, response.refresh_token of the login response
AccessTokenOf(repr) == IF repr = TokenBody THEN "abc123" ELSE Undefined
RefreshTokenOf(repr) == IF repr = TokenBody THEN "r1" ELSE Undefined
\* Array.isArray(children) && children.length > 0
HasChild(repr) == repr = KidsBody

\* what the backend answers to the call an async function waits for
AppResponses(owner) ==
    [status : {401, 500}, body : {DetailBody}]
    \cup [status : {200},
          body : CASE owner \in {"initMe", "loginMe"} -> {UserBody}
                   [] owner = "loginPost" -> {TokenBody}
                   [] owner \in {"checkHas", "checkKids", "completeKids"} -> {KidsBody, NoKidsBody}
                   [] OTHER -> {}]

\* useState initial values of AuthProvider and App; stored = localStorage 'todoc_has_onboarded'
MountedApp(stored) ==
    [mounted |-> TRUE, phase |-> "render1",
     user |-> Null, isLoading |-> TRUE,
     has |-> IF stored = Null THEN "null" ELSE IF stored = "true" THEN "true" ELSE "false",
     checking |-> FALSE, onboardKey |-> stored,
     deps |-> <<>>, owner |-> [c \in AppCalls |-> "none"],
     loginResult |-> "none", forced |-> FALSE,
     stale |-> [c \in CheckCalls |-> FALSE], checked |-> TRUE]

\* persistOnboardingState(value)
PersistOnboarding(a, value) ==
    [a EXCEPT !.has = value, !.onboardKey = IF value = "true" THEN "true" ELSE Null]

\* an App that tests onboarding before authentication
ScreenOfOnboardingFirst(authLoading, authed, checking, has) ==
    IF authLoading THEN "loading"
    ELSE IF has = "true" /\ ~checking THEN "main"
    ELSE IF ~authed THEN "login"
    ELSE IF checking \/ has = "null" THEN "checking"
    ELSE "register"

\* what App renders: the chain of returns at lines 109-150
ScreenOf(authLoading, authed, checking, has) ==
    IF authLoading THEN "loading"
    ELSE IF ~authed THEN "login"
    ELSE IF checking \/ has = "null" THEN "checking"
    ELSE IF has # "true" THEN "register"
    ELSE "main"

Screen == ScreenOf(app.isLoading, isAuthenticated, app.checking, app.has)

\* a request as apiClient.get / post hands it to fetch
IssuedRequest(tok) ==
    [IdleCall EXCEPT !.pc = "fetch", !.kind = "request", !.headers = RequestHeaders(tok)]

\* the dependencies of the onboarding effect differ from those of its last run
EffectDue == app.phase = "running" /\ app.deps # <<isAuthenticated, app.has>>
\* a settled call's awaiting function resumes before anything else happens
AppNoneDone == \A c \in AppCalls : calls[c].pc # "done"
AppQuiet == app.phase = "running" /\ AppNoneDone /\ ~EffectDue

AppKeeps == UNCHANGED <<trail, hook>>

\* initAuth's catch block: storeLogout() with the session as it is
InitAuthCatchKeepsSession(s) == s

\* initAuth's catch block: storeLogout()
InitAuthCatch(s) == StoreLogout(s)

\* login(): storeLogin(response.access_token); localStorage.setItem('refresh_token', ...)
LoginCommit(s, repr) ==
    [StoreLogin(s, AccessTokenOf(repr)) EXCEPT !.storage.refresh_token = RefreshTokenOf(repr)]

\* first commit: App's effect runs with the isAuthenticated of the first render
\* (false), then AuthProvider's effect starts initAuth: initAuthStore(), and if
\* a token is held, await apiClient.get('/api/v1/auth/me')
Mount ==
    /\ app.phase = "render1"
    /\ LET s == StoreInit(StoreState)
           a == [PersistOnboarding(app, "null") EXCEPT
                    !.phase = "running", !.deps = <<isAuthenticated, app.has>>]
       IN /\ StoreBecomes(s)
          /\ IF Truthy(s.token)
             THEN /\ calls' = [calls EXCEPT !["auth"] = IssuedRequest(s.token)]
                  /\ app' = [a EXCEPT !.owner["auth"] = "initMe"]
             ELSE /\ app' = [a EXCEPT !.isLoading = FALSE]
                  /\ UNCHANGED calls
    /\ AppKeeps

\* the onboarding effect (lines 47-75) after a render with changed dependencies
EffectRun ==
    /\ AppNoneDone /\ EffectDue
    /\ LET a == [app EXCEPT !.deps = <<isAuthenticated, app.has>>] IN
       IF isAuthenticated /\ app.has = "null"
       THEN \E c \in CheckCalls :
               /\ calls[c].pc = "idle"
               /\ c = "check2" => calls["check"].pc # "idle"
               /\ calls' = [calls EXCEPT ![c] = IssuedRequest(token)]
               /\ app' = [a EXCEPT !.checking = TRUE, !.owner[c] = "checkHas",
                                   !.stale[c] = FALSE]
       ELSE /\ app' = IF ~isAuthenticated THEN PersistOnboarding(a, "null") ELSE a
            /\ UNCHANGED calls
    /\ UNCHANGED <<token, isAuthenticated, storage>>
    /\ AppKeeps

\* LoginScreen's handleLogin: login(username, password) up to the post
LoginStart ==
    /\ AppQuiet
    /\ Screen = "login"
    /\ calls["auth"].pc = "idle"
    /\ calls' = [calls EXCEPT !["auth"] = IssuedRequest(token)]
    /\ app' = [app EXCEPT !.owner["auth"] = "loginPost", !.loginResult = "none"]
    /\ UNCHANGED <<token, isAuthenticated, storage>>
    /\ AppKeeps

\* handleLogout (lines 78-83): logout() of the context, persistOnboardingState(null)
HandleLogout ==
    /\ AppQuiet
    /\ Screen = "main"
    /\ StoreBecomes(StoreLogout(StoreState))
    /\ app' = PersistOnboarding([app EXCEPT !.user = Null], "null")
    /\ UNCHANGED calls
    /\ AppKeeps

\* handleOnboardingComplete (lines 86-97) up to the await of getChildren()
HandleOnboardingComplete ==
    /\ AppQuiet
    /\ Screen = "register"
    /\ calls["screen"].pc = "idle"
    /\ calls' = [calls EXCEPT !["screen"] = IssuedRequest(token)]
    /\ app' = [PersistOnboarding(app, "true") EXCEPT !.owner["screen"] = "completeKids"]
    /\ UNCHANGED <<token, isAuthenticated, storage>>
    /\ AppKeeps

\* request(), lines 246-262, for a call of the app: as RequestFetchResponds, and
\* noting that a 401 arrived while an authenticated screen was shown.  The answer
\* to a login post is taken once at most one earlier onboarding check is outstanding.
AppFetchResponds(c, status, body) ==
    /\ AppQuiet
    /\ calls[c].pc = "fetch" /\ calls[c].kind = "request"
    /\ app.owner[c] = "loginPost" => \E d \in CheckCalls : calls[d].pc = "idle"
    /\ calls' = [calls EXCEPT ![c].pc = IF Ok(status) THEN "text" ELSE "errorJson",
                              ![c].headers = NoHeaders,
                              ![c].status = status, ![c].body = body]
    /\ StoreBecomes(IF ~Ok(status) /\ ForcesLogout(status)
                     THEN StoreLogout(StoreState) ELSE StoreState)
    /\ app' = [app EXCEPT !.forced = @ \/ (status = 401 /\ Screen \in {"register", "main"})]
    /\ AppKeeps

\* initAuth after the await: setUser(userInfo), or storeLogout() in the catch;
\* then setIsLoading(false)
InitAuthContinue ==
    /\ calls["auth"].pc = "done" /\ app.owner["auth"] = "initMe"
    /\ LET o == calls["auth"].outcome IN
       /\ StoreBecomes(IF o.state = "resolved" THEN StoreState ELSE InitAuthCatch(StoreState))
       /\ app' = [app EXCEPT !.user = IF o.state = "resolved" THEN o.value ELSE @,
                             !.isLoading = FALSE, !.owner["auth"] = "none"]
    /\ calls' = [calls EXCEPT !["auth"] = IdleCall]
    /\ AppKeeps

\* login() after the post: storeLogin, setItem, then await get('/api/v1/auth/me');
\* a rejected post rejects login()
LoginPostContinue ==
    /\ calls["auth"].pc = "done" /\ app.owner["auth"] = "loginPost"
    /\ LET o == calls["auth"].outcome IN
       IF o.state = "resolved"
       THEN /\ StoreBecomes(LoginCommit(StoreState, o.value))
            /\ calls' = [calls EXCEPT !["auth"] = IssuedRequest(AccessTokenOf(o.value))]
            /\ app' = [app EXCEPT !.owner["auth"] = "loginMe", !.checked = FALSE,
                                  !.stale = [d \in CheckCalls |-> app.owner[d] # "none"]]
       ELSE /\ UNCHANGED <<token, isAuthenticated, storage>>
            /\ calls' = [calls EXCEPT !["auth"] = IdleCall]
            /\ app' = [app EXCEPT !.owner["auth"] = "none", !.loginResult = "rejected"]
    /\ AppKeeps

\* login() after the /me fetch: setUser(userInfo) and resolve, or reject
LoginMeContinue ==
    /\ calls["auth"].pc = "done" /\ app.owner["auth"] = "loginMe"
    /\ LET o == calls["auth"].outcome IN
       app' = IF o.state = "resolved"
              THEN [app EXCEPT !.user = o.value, !.owner["auth"] = "none",
                               !.loginResult = "resolved", !.forced = FALSE]
              ELSE [app EXCEPT !.owner["auth"] = "none", !.loginResult = "rejected"]
    /\ calls' = [calls EXCEPT !["auth"] = IdleCall]
    /\ UNCHANGED <<token, isAuthenticated, storage>>
    /\ AppKeeps

\* a catch block that leaves the onboarding state undecided
CheckFailedUndecided(a) == PersistOnboarding(a, "null")

\* checkOnboarding's catch block: persistOnboardingState(false)
CheckFailed(a) == PersistOnboarding(a, "false")

\* checkOnboarding after hasChildRegistered(): persistOnboardingState(hasChild),
\* then getChildren() again if there is a child; the catch persists false; the
\* finally block clears isCheckingOnboarding
CheckHasContinue(c) ==
    /\ calls[c].pc = "done" /\ app.owner[c] = "checkHas"
    /\ LET o == calls[c].outcome
           a == [app EXCEPT !.checked = @ \/ ~app.stale[c]]
       IN
       IF o.state = "resolved" /\ HasChild(o.value)
       THEN /\ calls' = [calls EXCEPT ![c] = IssuedRequest(token)]
            /\ app' = [PersistOnboarding(a, "true") EXCEPT !.owner[c] = "checkKids"]
       ELSE /\ calls' = [calls EXCEPT ![c] = IdleCall]
            /\ app' = [(IF o.state = "resolved" THEN PersistOnboarding(a, "false")
                        ELSE CheckFailed(a)) EXCEPT
                          !.checking = FALSE, !.owner[c] = "none"]
    /\ UNCHANGED <<token, isAuthenticated, storage>>
    /\ AppKeeps

\* checkOnboarding after its second getChildren(): the catch persists false
CheckKidsContinue(c) ==
    /\ calls[c].pc = "done" /\ app.owner[c] = "checkKids"
    /\ LET o == calls[c].outcome
           a == [app EXCEPT !.checking = FALSE, !.owner[c] = "none"]
       IN app' = IF o.state = "resolved" THEN a ELSE CheckFailed(a)
    /\ calls' = [calls EXCEPT ![c] = IdleCall]
    /\ UNCHANGED <<token, isAuthenticated, storage>>
    /\ AppKeeps

\* handleOnboardingComplete after getChildren(): the error is logged only
CompleteContinue ==
    /\ calls["screen"].pc = "done" /\ app.owner["screen"] = "completeKids"
    /\ calls' = [calls EXCEPT !["screen"] = IdleCall]
    /\ app' = [app EXCEPT !.owner["screen"] = "none"]
    /\ UNCHANGED <<token, isAuthenticated, storage>>
    /\ AppKeeps

\* first render: the store not yet initialised, localStorage as an earlier
\* session left it
InitApp ==
    /\ token = Null
    /\ isAuthenticated = FALSE
    /\ storage \in {[access_token |-> Null, refresh_token |-> Null],
                    [access_token |-> "old1", refresh_token |-> "r0"]}
    /\ calls = [c \in AppCalls |-> IdleCall]
    /\ trail = <<>>
    /\ hook = NoHook
    /\ app \in {MountedApp(Null), MountedApp("true")}

NextApp ==
    \/ Mount
    \/ EffectRun
    \/ LoginStart
    \/ HandleLogout
    \/ HandleOnboardingComplete
    \/ InitAuthContinue
    \/ LoginPostContinue
    \/ LoginMeContinue
    \/ \E c \in CheckCalls : CheckHasContinue(c)
    \/ \E c \in CheckCalls : CheckKidsContinue(c)
    \/ CompleteContinue
    \/ \E c \in AppCalls : \E r \in AppResponses(app.owner[c]) :
          AppFetchResponds(c, r.status, r.body)
    \/ AppQuiet /\ \E c \in AppCalls : RequestFetchRejects(c)
    \/ AppQuiet /\ \E c \in AppCalls : RequestErrorBody(c)
    \/ AppQuiet /\ \E c \in AppCalls : RequestText(c)

SpecApp == InitApp /\ [][NextApp]_vars

(* ---------- useSelectedKid (unnamed/part_002) in HomeScreen ---------- *)
\* the accounts that log in on this browser, their tokens and their children
Users == {"A", "B"}
TokenOfUser(u) == "tok" \o u
UserOfToken(t) == IF t = "tokA" THEN "A" ELSE IF t = "tokB" THEN "B" ELSE Null
KidsOfUser(u) == IF u = "A" THEN <<"1">> ELSE IF u = "B" THEN <<"2">> ELSE <<>>

NoKidFetch == [pc |-> "idle", user |-> Null, seen |-> Null]

\* HomeScreen not rendered; kidKey is localStorage 'selected_kid_id'
KidHook(kidKey) ==
    [mounted |-> TRUE, kidKey |-> kidKey, home |-> FALSE, selectedKidId |-> Null,
     fetch |-> NoKidFetch, used |-> Null, usedBy |-> Null]

\* selectKid(kidId): setSelectedKidId and the localStorage key; HomeScreen's
\* second effect then calls fetchRecords for that kid under the current session
SelectedKid(h, kidId, rendered, user) ==
    [h EXCEPT !.kidKey = kidId,
              !.selectedKidId = IF rendered THEN kidId ELSE @,
              !.used = IF rendered /\ kidId # Null THEN kidId ELSE @,
              !.usedBy = IF rendered /\ kidId # Null THEN user ELSE @]

KidKeeps == UNCHANGED <<calls, trail, app>>

\* AuthContext.login's storeLogin(response.access_token) for account u
KidLogin(u) ==
    /\ ~isAuthenticated
    /\ StoreBecomes(StoreLogin(StoreState, TokenOfUser(u)))
    /\ UNCHANGED hook
    /\ KidKeeps

\* handleLogout or a forced logout: the store's logout(); App stops rendering HomeScreen
KidLogout ==
    /\ isAuthenticated
    /\ StoreBecomes(StoreLogout(StoreState))
    /\ hook' = [hook EXCEPT !.home = FALSE, !.selectedKidId = Null]
    /\ KidKeeps

\* HomeScreen mounts: useSelectedKid's initial state is read from localStorage,
\* fetchChildInfo starts, and fetchRecords runs if a kid is selected
HomeMount ==
    /\ isAuthenticated /\ ~hook.home /\ hook.fetch.pc = "idle"
    /\ hook' = [hook EXCEPT
          !.home = TRUE, !.selectedKidId = hook.kidKey,
          !.fetch = [pc |-> "pending", user |-> UserOfToken(token), seen |-> hook.kidKey],
          !.used = IF hook.kidKey # Null THEN hook.kidKey ELSE @,
          !.usedBy = IF hook.kidKey # Null THEN UserOfToken(token) ELSE @]
    /\ UNCHANGED <<token, isAuthenticated, storage>>
    /\ KidKeeps

\* fetchChildInfo after getChildren(): if (!selectedKidId) selectKid(children[0].id),
\* with the selectedKidId of the render that started it; a selection re-runs the effect
HomeChildren ==
    /\ hook.fetch.pc = "pending"
    /\ LET kids == KidsOfUser(hook.fetch.user)
           selects == kids # <<>> /\ hook.fetch.seen = Null
           h == IF selects
                THEN SelectedKid(hook, kids[1], hook.home, UserOfToken(token))
                ELSE hook
       IN hook' = [h EXCEPT !.fetch =
                      IF selects /\ hook.home
                      THEN [pc |-> "pending", user |-> UserOfToken(token), seen |-> kids[1]]
                      ELSE NoKidFetch]
    /\ UNCHANGED <<token, isAuthenticated, storage>>
    /\ KidKeeps

\* the kids screen: handleSelect(kidId) for one of the listed children, or
\* selectKid(null) after deleting the selected one
KidSelect(kidId) ==
    /\ isAuthenticated /\ hook.home
    /\ kidId # hook.selectedKidId
    /\ kidId = Null \/ kidId = KidsOfUser(UserOfToken(token))[1]
    /\ hook' = SelectedKid(hook, kidId, TRUE, UserOfToken(token))
    /\ UNCHANGED <<token, isAuthenticated, storage>>
    /\ KidKeeps

InitKid ==
    /\ token = Null
    /\ isAuthenticated = FALSE
    /\ storage = [access_token |-> Null, refresh_token |-> Null]
    /\ calls = [c \in Calls |-> IdleCall]
    /\ trail = <<>>
    /\ hook = KidHook(Null)
    /\ app = NoApp

NextKid ==
    \/ \E u \in Users : KidLogin(u)
    \/ KidLogout
    \/ HomeMount
    \/ HomeChildren
    \/ \E k \in {Null, "1", "2"} : KidSelect(k)

SpecKid == InitKid /\ [][NextKid]_vars

(* ---------- ChatScreen: src/frontend/src/screens/Chat/ChatScreen.tsx ---------- *)
\* the longest message list and the most sessions of one run of the screen
MaxMessages == 4
MaxSessions == 2

\* a message of the list: kind is the id prefix ('init-', 'user-', 'loading-',
\* 'error-', 'system-') or "server" for a message whose id the backend gave;
\* session is the chat session a server message belongs to, 0 for local ones
LocalMessage(kind) == [kind |-> kind, role |-> IF kind = "user" THEN "user" ELSE "ai", session |-> 0]
ServerMessage(role, sid) == [kind |-> "server", role |-> role, session |-> sid]

\* session.messages of GET /sessions/{sid}: none yet, or one exchange
SessionPayloads(sid) == {<<>>, <<ServerMessage("user", sid), ServerMessage("ai", sid)>>}

\* prev.filter((m) => !m.id.startsWith(prefix))
WithoutPrefix(prev, prefix) == SelectSeq(prev, LAMBDA m : m.kind # prefix)

\* loadSessionMessages: the mapped messages, or the initial message if there are none
LoadedMessages(payload) ==
    IF Len(payload) > 0 THEN payload ELSE <<LocalMessage("init")>>

\* handleSendMessage's first setMessages: drop the initial message, add the
\* user message and the 'loading-' placeholder
SendStarted(prev) ==
    WithoutPrefix(prev, "init") \o <<LocalMessage("user"), LocalMessage("loading")>>

\* a send that appends its result and leaves the placeholder in the list
SendEndedKeepsPlaceholder(prev, last) == prev \o <<last>>

\* handleSendMessage's setMessages in try and in catch: drop the placeholder,
\* add the AI response or the error message
SendEnded(prev, last) == WithoutPrefix(prev, "loading") \o <<last>>

NoChatOp == [op |-> "none", sid |-> 0]

\* useState values once loadSessions has listed the one session there is,
\* selected it and loaded its messages
MountedChat(payload) ==
    [mounted |-> TRUE, sessions |-> {1}, currentSessionId |-> 1,
     messages |-> LoadedMessages(payload), isSending |-> FALSE,
     ops |-> [c \in Calls |-> NoChatOp]]

\* an async handler, having made its synchronous updates, suspends on
\* apiClient in the first free slot
ChatSuspends(c, op, sid, before) ==
    /\ hook.mounted
    /\ hook.ops[c].op = "none"
    /\ \A d \in Calls : d < c => hook.ops[d].op # "none"
    /\ hook' = [before EXCEPT !.ops[c] = [op |-> op, sid |-> sid]]
    /\ UNCHANGED <<token, isAuthenticated, storage, calls, trail, app>>

\* the call of slot c settles with an HTTP status; a 401 makes the gateway log
\* out, App renders the login screen and this screen is gone
ChatResumes(c, op, status, after) ==
    /\ hook.mounted /\ hook.ops[c].op = op
    /\ IF status = 401
       THEN /\ StoreBecomes(StoreLogout(StoreState))
            /\ hook' = [hook EXCEPT !.mounted = FALSE, !.ops[c] = NoChatOp]
       ELSE /\ UNCHANGED <<token, isAuthenticated, storage>>
            /\ hook' = [after EXCEPT !.ops[c] = NoChatOp]
    /\ UNCHANGED <<calls, trail, app>>

\* handleSessionChange: setCurrentSessionId(sessionId); await loadSessionMessages
HandleSessionChange(c, sid) ==
    /\ sid \in hook.sessions
    /\ ChatSuspends(c, "load", sid, [hook EXCEPT !.currentSessionId = sid])

\* loadSessionMessages after getChatSession(): setMessages in try or in catch
LoadContinue(c, status) ==
    \E payload \in SessionPayloads(hook.ops[c].sid) :
       ChatResumes(c, "load", status,
          [hook EXCEPT !.messages = IF status = 200 THEN LoadedMessages(payload)
                                    ELSE <<LocalMessage("init")>>])

\* handleNewSession up to createChatSession(kidId)
HandleNewSession(c) ==
    /\ Cardinality(hook.sessions)
          + Cardinality({d \in Calls : hook.ops[d].op = "create"}) < MaxSessions
    /\ ChatSuspends(c, "create", 0, hook)

\* handleNewSession after createChatSession(): the new session is listed and
\* selected and the list is the initial message; a failure only shows a toast
NewSessionContinue(c, status) ==
    LET id == Cardinality(hook.sessions) + 1 IN
    ChatResumes(c, "create", status,
       IF status = 200
       THEN [hook EXCEPT !.sessions = @ \cup {id}, !.currentSessionId = id,
                         !.messages = <<LocalMessage("init")>>]
       ELSE hook)

\* handleSendMessage up to sendMessage(currentSessionId, ...): the guard reads
\* the rendered isSending; the input holds text; a session id is a positive
\* number, so !currentSessionId is "none selected"
HandleSendMessage(c) ==
    /\ hook.currentSessionId # 0 /\ ~hook.isSending
    /\ Len(SendStarted(hook.messages)) <= MaxMessages
    /\ ChatSuspends(c, "send", hook.currentSessionId,
          [hook EXCEPT !.messages = SendStarted(@), !.isSending = TRUE])

\* handleSendMessage after sendMessage(): try or catch, then finally
SendContinue(c, status) ==
    ChatResumes(c, "send", status,
       [hook EXCEPT !.isSending = FALSE,
                    !.messages = SendEnded(@, IF status = 200
                                              THEN ServerMessage("ai", hook.ops[c].sid)
                                              ELSE LocalMessage("error"))])

\* handleImportRecord: a 'system-' message is appended
HandleImportRecord ==
    /\ hook.mounted
    /\ Len(hook.messages) < MaxMessages
    /\ hook' = [hook EXCEPT !.messages = Append(@, LocalMessage("system"))]
    /\ UNCHANGED <<token, isAuthenticated, storage, calls, trail, app>>

\* a logged-in session showing ChatScreen
InitChat ==
    /\ token = "abc123"
    /\ isAuthenticated = TRUE
    /\ storage = [access_token |-> "abc123", refresh_token |-> "r1"]
    /\ calls = [c \in Calls |-> IdleCall]
    /\ trail = <<>>
    /\ hook \in {MountedChat(payload) : payload \in SessionPayloads(1)}
    /\ app = NoApp

NextChat ==
    \/ \E c \in Calls, sid \in 1..MaxSessions : HandleSessionChange(c, sid)
    \/ \E c \in Calls : HandleNewSession(c)
    \/ \E c \in Calls : HandleSendMessage(c)
    \/ HandleImportRecord
    \/ \E c \in Calls, status \in Statuses : LoadContinue(c, status)
    \/ \E c \in Calls, status \in Statuses : NewSessionContinue(c, status)
    \/ \E c \in Calls, status \in Statuses : SendContinue(c, status)

SpecChat == InitChat /\ [][NextChat]_vars

(* ---------- claims ---------- *)
Anonymous ==
    /\ ~isAuthenticated
    /\ token = Null
    /\ storage.access_token = Null
    /\ storage.refresh_token = Null

\* a call that has finished, and what it got from the network
Done(c) == calls[c].pc = "done"
NoResponse(c) == calls[c].status = 0
ErrorResponse(c) == calls[c].status # 0 /\ ~Ok(calls[c].status)
NetworkError == [kind |-> "ApiError", status |-> 0, message |-> NetworkErrorMessage, detail |-> Absent]
IsNetworkError(e) == e.status = 0 /\ e.message = NetworkErrorMessage

\* C1: in every state reachable by login(token), logout() and init(), for any
\* token string including the empty one, isAuthenticated is true exactly when
\* token is present and non-empty.
C1_FlagIffToken ==
    isAuthenticated <=> (token # Null /\ token # "")

\* the step in which call c checks a 401 response's status: lines 247-251 of
\* request() as the response arrives, lines 335-338 of uploadFile() once the
\* error body has been read
Checks401(c) ==
    \/ /\ calls[c].kind = "request" /\ calls[c].pc = "fetch"
       /\ calls'[c].pc = "errorJson" /\ calls'[c].status = 401
    \/ /\ calls[c].kind = "upload" /\ calls[c].pc = "errorJson"
       /\ calls'[c].pc = "done" /\ calls[c].status = 401

\* C2: with any number of calls in flight, every call that handles a 401
\* response leaves the Session Store anonymous, token cleared from memory and
\* both keys removed from durable storage; and the store leaves that state only
\* by a login(), so however many 401 responses arrive the session is dropped
\* once, and the later 401s find and leave the store anonymous.
C2_UnauthorizedLogsOutOnce ==
    [][/\ \A c \in Calls : Checks401(c) => Anonymous'
       /\ (Anonymous /\ ~Anonymous') => \E t \in Tokens : Login(t)]_vars

\* all calls in flight together got a 401 and were handled; the store is anonymous
C2_Witness ==
    /\ Anonymous
    /\ \A c \in Calls : Done(c) /\ calls[c].status = 401

\* C3: every call, when it is issued by request() or by uploadFile(), carries
\* Authorization: Bearer <t> with t the store's token at that moment, and no
\* Authorization header when the store holds no (non-empty) token.
C3_BearerIsCurrentToken ==
    [][\A c \in Calls :
          (calls[c].pc = "idle" /\ calls'[c].pc = "fetch")
             => calls'[c].headers.Authorization =
                   (IF token # Null /\ token # "" THEN "Bearer " \o token ELSE Absent)]_vars

\* a request and an upload in flight, both issued right after login("abc123")
C3_Witness ==
    /\ token = "abc123"
    /\ \E c, d \in Calls :
          /\ calls[c].pc = "fetch" /\ calls[c].kind = "request"
          /\ calls[d].pc = "fetch" /\ calls[d].kind = "upload"
          /\ calls[c].headers.Authorization = "Bearer abc123"
          /\ calls[d].headers.Authorization = "Bearer abc123"

\* C4: a step of a gateway call changes the Session Store (token,
\* isAuthenticated, access_token, refresh_token) only if the response that call
\* received has status 401; 2xx, other statuses and transport failures leave it
\* as it was.
C4_StoreChangesOnlyOn401 ==
    [][(calls' # calls /\ <<token, isAuthenticated, storage>>' # <<token, isAuthenticated, storage>>)
          => \E c \in Calls : calls'[c] # calls[c] /\ calls'[c].status = 401]_vars

\* a 500 and a transport failure have been handled and the session is intact
C4_Witness ==
    /\ isAuthenticated /\ token = "abc123" /\ storage.access_token = "abc123"
    /\ \E c, d \in Calls :
          /\ Done(c) /\ calls[c].status = 500
          /\ Done(d) /\ NoResponse(d)

\* C5: every call whose response status is outside 2xx rejects with a
\* structured error whose status is that HTTP status, whatever the error body.
C5_ErrorStatusIsHttpStatus ==
    \A c \in Calls :
       (Done(c) /\ ErrorResponse(c))
          => /\ calls[c].outcome.state = "rejected"
             /\ calls[c].outcome.error.kind = "ApiError"
             /\ calls[c].outcome.error.status = calls[c].status

\* C6: a call rejects with status 0 and the network-error message only if no
\* response reached the client; with a response received the outcome is a
\* success or an error carrying the response's status.
C6_Status0OnlyWithoutResponse ==
    \A c \in Calls :
       (Done(c) /\ ~NoResponse(c))
          => \/ calls[c].outcome.state = "resolved"
             \/ /\ calls[c].outcome.state = "rejected"
                /\ calls[c].outcome.error.status = calls[c].status

\* C7: a call through request() that never receives a response rejects with
\* exactly {status: 0, message: 'Network error. Please check your connection.'}.
C7_RequestNetworkError ==
    \A c \in Calls :
       (Done(c) /\ calls[c].kind = "request" /\ NoResponse(c))
          => calls[c].outcome = Rejected(NetworkError)

C7_Witness ==
    \E c \in Calls :
       /\ Done(c) /\ calls[c].kind = "request" /\ NoResponse(c)
       /\ calls[c].outcome.state = "rejected"

\* C8: a call through request() whose response is 2xx with an empty body
\* resolves to the empty object; it does not reject nor resolve to null.
C8_EmptyBodyIsEmptyObject ==
    \A c \in Calls :
       (Done(c) /\ calls[c].kind = "request" /\ Ok(calls[c].status) /\ calls[c].body = EmptyBody)
          => /\ calls[c].outcome.state = "resolved"
             /\ calls[c].outcome.value = "{}"

C8_Witness ==
    \E c \in Calls :
       /\ Done(c) /\ calls[c].kind = "request"
       /\ calls[c].status = 200 /\ calls[c].body = EmptyBody
       /\ calls[c].outcome.state = "resolved"

\* C9: for a non-2xx response whose JSON body holds a detail string the
\* rejected error's message is that string; when the body is empty, not JSON or
\* has no detail the message is 'HTTP error! status: <code>'.
C9_MessageIsDetailOrGeneric ==
    \A c \in Calls :
       (Done(c) /\ ErrorResponse(c))
          => /\ calls[c].outcome.state = "rejected"
             /\ calls[c].outcome.error.message =
                   (IF JsonParse(calls[c].body).ok /\ JsonParse(calls[c].body).detail # Undefined
                    THEN JsonParse(calls[c].body).detail
                    ELSE "HTTP error! status: " \o ToString(calls[c].status))

\* C10: uploadFile maps outcomes as request() does: a 401 logs the store out
\* and rejects with a structured error of status 401, another non-2xx rejects
\* with a structured error of that status, a transport failure rejects with
\* {status 0, network-error message}, a 2xx with an empty body resolves to {}.
C10_UploadMapsLikeRequest ==
    \A c \in Calls :
       (Done(c) /\ calls[c].kind = "upload")
          => /\ ErrorResponse(c) =>
                   /\ calls[c].outcome.state = "rejected"
                   /\ calls[c].outcome.error.kind = "ApiError"
                   /\ calls[c].outcome.error.status = calls[c].status
             /\ NoResponse(c) => calls[c].outcome = Rejected(NetworkError)
             /\ (Ok(calls[c].status) /\ calls[c].body = EmptyBody) =>
                   calls[c].outcome = Resolved("{}")

\* C11: every HTTP request is issued through the API Gateway (request or
\* uploadFile): no call on the network is of another kind, and every request
\* answered with an error status is rejected with the structured error carrying
\* that status.
C11_GatewayIsSoleEgress ==
    \A c \in Calls :
       /\ calls[c].pc # "idle" => calls[c].kind \in {"request", "upload"}
       /\ (Done(c) /\ ErrorResponse(c) /\ calls[c].body # NullBody)
             => (calls[c].outcome.error.kind = "ApiError"
                 /\ calls[c].outcome.error.status = calls[c].status)

\* the last n operations of the trail
EndsWith(ops) ==
    /\ Len(trail) >= Len(ops)
    /\ SubSeq(trail, Len(trail) - Len(ops) + 1, Len(trail)) = ops

\* C12: the Session Store moves between anonymous and authenticated only by
\* login (to authenticated), logout (to anonymous) and init with a stored token
\* (anonymous to authenticated); init in the authenticated state leaves the
\* store and its token as they are, and init with no stored token leaves an
\* anonymous store anonymous.
C12_StoreTransitions ==
    [][(trail' # trail) =>
          LET op == trail'[Len(trail')] IN
          /\ op.op = "login" => (isAuthenticated' /\ token' = op.t)
          /\ op.op = "logout" => (~isAuthenticated' /\ token' = Null)
          /\ (op.op = "init" /\ isAuthenticated) => (isAuthenticated' /\ token' = token)
          /\ (op.op = "init" /\ ~isAuthenticated /\ storage.access_token \in {Null, ""})
                => (~isAuthenticated' /\ token' = Null)
          /\ (op.op = "init" /\ ~isAuthenticated /\ storage.access_token \notin {Null, ""})
                => (isAuthenticated' /\ token' = storage.access_token)
          /\ (isAuthenticated' # isAuthenticated)
                => \/ op.op = "login" /\ ~isAuthenticated
                   \/ op.op = "logout" /\ isAuthenticated
                   \/ op.op = "init" /\ ~isAuthenticated
                   \/ op.op = "restart"]_vars

\* init found the token an earlier run stored, then init ran again on the
\* authenticated store, then logout
C12_Witness ==
    /\ trail = <<OpInit, OpInit, OpLogout>>
    /\ ~isAuthenticated /\ token = Null

\* C13: for every token t, login(t) followed by init(), and login(t) followed
\* by a restart and then init(), yield token = t and isAuthenticated = true.
C13_LoginInitRoundTrip ==
    \A t \in Tokens :
       (EndsWith(<<OpLogin(t), OpInit>>) \/ EndsWith(<<OpLogin(t), OpRestart, OpInit>>))
          => (token = t /\ isAuthenticated)

\* C14: a logout() called right after a logout() leaves the store and durable
\* storage exactly as the first call left them: anonymous, no access_token, no
\* refresh_token.
C14_LogoutIdempotent ==
    [][(trail # <<>> /\ trail[Len(trail)] = OpLogout /\ trail' = Append(trail, OpLogout))
          => (<<token, isAuthenticated, storage>>' = <<token, isAuthenticated, storage>>
              /\ Anonymous')]_vars

C14_Witness ==
    /\ trail = <<OpLogin("abc123"), OpLogout, OpLogout>>
    /\ Anonymous

\* the step in which the operation that issued call c resumes after the call
ContinuesOp(c, op) ==
    /\ calls[c].pc = "done" /\ hook.ops[c].op = op
    /\ calls'[c].pc = "idle"

\* C18: two fetchRecords calls of one useRecords instance are sent as two
\* requests, and when both have completed successfully the records list is the
\* payload of the one that completed last, whichever was issued last.
C18_LastArrivalWins ==
    LET n == Len(hook.log) IN
    (/\ n >= 2
     /\ hook.log[n].op = "fetch" /\ hook.log[n].ok
     /\ hook.log[n - 1].op = "fetch" /\ hook.log[n - 1].ok)
       => hook.records = AsRecords(hook.log[n].value)

\* the call issued first was answered last, and its older payload is the list
C18_Witness ==
    /\ Len(hook.log) = 2
    /\ hook.log[1] = [op |-> "fetch", n |-> 2, ok |-> TRUE, value |-> ListBBody]
    /\ hook.log[2] = [op |-> "fetch", n |-> 1, ok |-> TRUE, value |-> ListABody]
    /\ hook.records = <<"1">>

LoginCommits ==
    /\ calls["auth"].pc = "done" /\ app.owner["auth"] = "loginPost"
    /\ calls["auth"].outcome.state = "resolved"
    /\ app'.owner["auth"] = "loginMe"

\* the step in which call c of the app takes a 401 answer
Takes401(c) ==
    /\ calls[c].pc = "fetch" /\ calls'[c].pc = "errorJson" /\ calls'[c].status = 401

\* C15: AuthContext login writes the access and refresh token the server
\* returned to durable storage and they stay there until a logout; every
\* logout, explicit or forced by a 401, leaves neither key in durable storage
\* and no token in memory.
C15_StoredCredentials ==
    [][/\ LoginCommits =>
             /\ storage' = [access_token |-> AccessTokenOf(calls["auth"].outcome.value),
                            refresh_token |-> RefreshTokenOf(calls["auth"].outcome.value)]
             /\ token' = storage'.access_token
       /\ (HandleLogout \/ (isAuthenticated /\ ~isAuthenticated')
           \/ \E c \in AppCalls : Takes401(c)) => Anonymous'
       /\ (storage' # storage) => (LoginCommits \/ Anonymous')]_vars

\* login() has resolved and the session it stored is still there
C15_Witness ==
    /\ app.loginResult = "resolved"
    /\ token = "abc123"
    /\ storage = [access_token |-> "abc123", refresh_token |-> "r1"]

\* C16: once a gateway call has received a 401 while an authenticated screen
\* was shown, no authenticated screen (main screens or child registration) is
\* rendered until a later login call has succeeded: while no login is in
\* progress and none has succeeded since the 401, the screen is not one of them.
C16_NoAuthenticatedScreenAfter401 ==
    (app.forced /\ app.owner["auth"] = "none") => Screen \notin {"register", "main"}

\* C17: main screens are rendered only when authentication loading has
\* finished, the store is authenticated, no onboarding check is in progress and
\* hasCompletedOnboarding is true; an anonymous session is always shown the
\* login screen; an authenticated session with hasCompletedOnboarding = false
\* is shown the child-registration screen.
C17_ScreenGating ==
    /\ Screen = "main"
          => (~app.isLoading /\ isAuthenticated /\ ~app.checking /\ app.has = "true")
    /\ ~isAuthenticated => Screen = "login"
    /\ (isAuthenticated /\ app.has = "false") => Screen = "register"

\* C17 amended: as C17, with the login screen and the child-registration
\* screen shown once authentication loading has finished.
C17_ScreenGatingAfterLoading ==
    /\ Screen = "main"
          => (~app.isLoading /\ isAuthenticated /\ ~app.checking /\ app.has = "true")
    /\ (~app.isLoading /\ ~isAuthenticated) => Screen = "login"
    /\ (~app.isLoading /\ isAuthenticated /\ app.has = "false") => Screen = "register"

\* the main screens after a login that went through the onboarding check
C17_Witness ==
    /\ Screen = "main"
    /\ app.loginResult = "resolved"
    /\ app.owner = [c \in AppCalls |-> "none"]

\* the step in which initAuth resumes after its /api/v1/auth/me call
InitAuthResumes ==
    /\ calls["auth"].pc = "done" /\ app.owner["auth"] = "initMe"
    /\ app'.owner["auth"] = "none"

\* C20: at application start with a stored access token, if the /me call fails
\* (401, another HTTP error, no response) the store ends anonymous with both
\* keys removed, user null and isLoading false; if it succeeds initAuth leaves
\* the store as it is, user is the returned profile and isLoading is false.
C20_InitAuthOutcome ==
    [][InitAuthResumes =>
          LET o == calls["auth"].outcome IN
          /\ ~app'.isLoading
          /\ o.state = "rejected" => (Anonymous' /\ app'.user = Null)
          /\ o.state = "resolved"
                => (/\ <<token, isAuthenticated, storage>>' = <<token, isAuthenticated, storage>>
                    /\ app'.user = UserBody)]_vars

\* initAuth found a token, its /me call failed and it ended in its catch block
C20_Witness ==
    /\ app.phase = "running" /\ ~app.isLoading
    /\ app.loginResult = "none" /\ app.owner["auth"] = "none"
    /\ Anonymous /\ app.user = Null
    /\ app.deps = <<TRUE, "null">>

\* C21: whenever AuthContext.login rejects, at the login post or at the
\* following /api/v1/auth/me fetch and for whatever failure, the Session Store
\* is anonymous when it rejects.
C21_RejectedLoginIsAnonymous ==
    [][(app.loginResult # "rejected" /\ app'.loginResult = "rejected")
          => (~isAuthenticated' /\ token' = Null)]_vars

\* C22: in every state in which no AuthContext operation (initAuth, login) is
\* in progress, AuthContext.user is non-null only if the Session Store is
\* authenticated; in particular user is null after a logout forced by a 401.
C22_UserOnlyIfAuthenticated ==
    (app.phase = "running" /\ ~app.isLoading /\ app.owner["auth"] = "none")
       => (app.user # Null => isAuthenticated)

\* C23: a 401 clears the session only if the token the store holds when the
\* response is processed is the token the request was sent with: a 401
\* answering a request sent under another token leaves the session as it is.
C23_StaleUnauthorizedIgnored ==
    [][\A c \in Calls :
          (/\ Checks401(c) /\ calls[c].kind = "request"
           /\ isAuthenticated /\ Truthy(token)
           /\ calls[c].headers.Authorization # "Bearer " \o token)
             => (isAuthenticated' /\ token' = token)]_vars

\* C24: the selected kid id used to fetch and create records is absent or the
\* id of a child of the user currently logged in: after a logout and the login
\* of another user, a kid id selected in the previous session is never used.
C24_SelectedKidBelongsToUser ==
    (isAuthenticated /\ hook.home /\ hook.selectedKidId # Null)
       => hook.selectedKidId = KidsOfUser(UserOfToken(token))[1]

\* C25: whenever the Session Store is anonymous and App's effects have run,
\* hasCompletedOnboarding is null and the todoc_has_onboarded key is absent
C25_AnonymousForgetsOnboarding ==
    (app.phase = "running" /\ ~isAuthenticated /\ ~EffectDue)
       => (app.has = "null" /\ app.onboardKey = Null)

\* C25: after a login, the main screens or the registration screen are shown
\* only once an onboarding check started after that login has ended
C25_ScreenAfterRecheck ==
    (app.phase = "running" /\ Screen \in {"register", "main"}) => app.checked

\* the step in which checkOnboarding resumes after call c failed with an
\* error other than a 401
CheckFails(c) ==
    /\ calls[c].pc = "done" /\ app.owner[c] \in {"checkHas", "checkKids"}
    /\ calls[c].outcome.state = "rejected" /\ calls[c].outcome.error.status # 401
    /\ app'.owner[c] = "none"

Placeholders == SelectSeq(hook.messages, LAMBDA m : m.kind = "loading")
\* the AI replies and error messages in a message list
Replies(list) == SelectSeq(list, LAMBDA m : m.kind = "error" \/ (m.kind = "server" /\ m.role = "ai"))
\* the step in which a send of ChatScreen ends
SendEnds(c) == hook.mounted /\ hook.ops[c].op = "send" /\ hook'.mounted /\ hook'.ops[c].op = "none"

\* C27: in ChatScreen at most one send-message request is in flight, the list
\* holds at most one 'loading-' placeholder and none while isSending is false;
\* every send ends with no placeholder left and exactly one more AI reply or
\* error message at the end of the list.
C27_OneSendOnePlaceholder ==
    /\ [](hook.mounted =>
            /\ Cardinality({c \in Calls : hook.ops[c].op = "send"}) <= 1
            /\ Len(Placeholders) <= 1
            /\ ~hook.isSending => Len(Placeholders) = 0)
    /\ [][\A c \in Calls :
            SendEnds(c) =>
               /\ ~hook'.isSending
               /\ Len(SelectSeq(hook'.messages, LAMBDA m : m.kind = "loading")) = 0
               /\ Len(Replies(hook'.messages)) = Len(Replies(hook.messages)) + 1
               /\ Replies(<<hook'.messages[Len(hook'.messages)]>>) # <<>>]_vars

\* a send has ended with the AI reply in place of the placeholder, and a
\* second send is waiting with its placeholder in the list
C27_Witness ==
    /\ hook.mounted /\ hook.isSending
    /\ hook.messages = <<LocalMessage("user"), ServerMessage("ai", 1),
                         LocalMessage("user"), LocalMessage("loading")>>

\* C28: whenever no request of ChatScreen is in flight, every server message
\* in the message list belongs to the currently selected session.
C28_MessagesOfCurrentSession ==
    (hook.mounted /\ \A c \in Calls : hook.ops[c].op = "none")
       => \A i \in 1..Len(hook.messages) :
             hook.messages[i].session \in {0, hook.currentSessionId}

\* C29: in a data hook, loading is true whenever at least one of the hook
\* instance's operations is in flight and false whenever none is.
C29_LoadingIffInFlight ==
    hook.mounted => (hook.loading <=> \E c \in Calls : hook.ops[c].op # "none")

====
